---- MODULE Spec2Model ----
(***************************************************************************)
(* The chi-squared CDF core of the repository: the memoised factorial      *)
(* (fact under lru_cache(128)), the incomplete gamma series gamma(s, z),   *)
(* the hybrid complete gamma Gamma_Half(k) and cdf(x, k), in the rational  *)
(* variant (Chapter16/ch16_ex3.py) and the float variant                   *)
(* (Bonus/chi_sq.py).                                                      *)
(*                                                                         *)
(* Python ints and Fractions are unbounded, so every number of the model   *)
(* is an arbitrary-precision value: a natural number is its sequence of    *)
(* limbs in base Base, least significant first, without leading zero       *)
(* limbs (zero is << >>); a Fraction is [neg, n, d], the value             *)
(* (-1)^neg * n / d with d > 0.  Python keeps a Fraction in lowest terms;  *)
(* the model does not reduce, and compares values by cross-multiplication. *)
(***************************************************************************)
EXTENDS Integers, Sequences, FiniteSets, TLC

Base == 100 * 100

-----------------------------------------------------------------------------
(* Natural numbers of any size.                                            *)

RECURSIVE BnOfInt(_)
BnOfInt(n) == IF n = 0 THEN << >> ELSE <<n % Base>> \o BnOfInt(n \div Base)

RECURSIVE BnTrimR(_, _)
BnTrimR(a, n) == IF n = 0 THEN << >>
                 ELSE IF a[n] # 0 THEN SubSeq(a, 1, n)
                 ELSE BnTrimR(a, n - 1)
BnTrim(a) == IF a = << >> \/ a[Len(a)] # 0 THEN a ELSE BnTrimR(a, Len(a))

\* -1, 0, 1 as limbs lo..hi of a are below, equal to, above those of b
RECURSIVE BnCmpR(_, _, _, _)
BnCmpR(a, b, lo, hi) ==
  IF lo = hi THEN (IF a[lo] < b[lo] THEN -1 ELSE IF a[lo] > b[lo] THEN 1 ELSE 0)
  ELSE LET mid == (lo + hi) \div 2
           H == BnCmpR(a, b, mid + 1, hi)
       IN IF H # 0 THEN H ELSE BnCmpR(a, b, lo, mid)
BnCmp(a, b) ==
  IF Len(a) < Len(b) THEN -1
  ELSE IF Len(a) > Len(b) THEN 1
  ELSE IF Len(a) = 0 THEN 0
  ELSE BnCmpR(a, b, 1, Len(a))
BnLt(a, b) == BnCmp(a, b) < 0
BnLe(a, b) == BnCmp(a, b) <= 0

BnLimb(a, i) == IF i <= Len(a) THEN a[i] ELSE 0

\* limbs lo..hi of a + b with carry c in: [d |-> limbs, c |-> carry out]
RECURSIVE BnAddR(_, _, _, _, _)
BnAddR(a, b, lo, hi, c) ==
  IF lo = hi
  THEN LET t == BnLimb(a, lo) + BnLimb(b, lo) + c
       IN [d |-> <<t % Base>>, c |-> t \div Base]
  ELSE LET mid == (lo + hi) \div 2
           L == BnAddR(a, b, lo, mid, c)
           R == BnAddR(a, b, mid + 1, hi, L.c)
       IN [d |-> L.d \o R.d, c |-> R.c]
BnAdd(a, b) ==
  IF a = << >> THEN b
  ELSE IF b = << >> THEN a
  ELSE LET n == IF Len(a) > Len(b) THEN Len(a) ELSE Len(b)
           r == BnAddR(a, b, 1, n, 0)
       IN IF r.c = 0 THEN r.d ELSE Append(r.d, r.c)

\* limbs lo..hi of a - b with borrow c in (a >= b)
RECURSIVE BnSubR(_, _, _, _, _)
BnSubR(a, b, lo, hi, c) ==
  IF lo = hi
  THEN LET t == a[lo] - BnLimb(b, lo) - c
       IN IF t < 0 THEN [d |-> <<t + Base>>, c |-> 1] ELSE [d |-> <<t>>, c |-> 0]
  ELSE LET mid == (lo + hi) \div 2
           L == BnSubR(a, b, lo, mid, c)
           R == BnSubR(a, b, mid + 1, hi, L.c)
       IN [d |-> L.d \o R.d, c |-> R.c]
BnSub(a, b) == IF b = << >> THEN a ELSE BnTrim(BnSubR(a, b, 1, Len(a), 0).d)

\* limbs lo..hi of a * m with carry c in (0 < m < Base)
RECURSIVE BnMulLimbR(_, _, _, _, _)
BnMulLimbR(a, m, lo, hi, c) ==
  IF lo = hi
  THEN LET t == a[lo] * m + c IN [d |-> <<t % Base>>, c |-> t \div Base]
  ELSE LET mid == (lo + hi) \div 2
           L == BnMulLimbR(a, m, lo, mid, c)
           R == BnMulLimbR(a, m, mid + 1, hi, L.c)
       IN [d |-> L.d \o R.d, c |-> R.c]
BnMulLimb(a, m) ==
  IF m = 0 \/ a = << >> THEN << >>
  ELSE LET r == BnMulLimbR(a, m, 1, Len(a), 0)
       IN IF r.c = 0 THEN r.d ELSE Append(r.d, r.c)

BnShift(a, n) == IF a = << >> THEN a ELSE [i \in 1..n |-> 0] \o a

\* a times limbs lo..hi of b
RECURSIVE BnMulR(_, _, _, _)
BnMulR(a, b, lo, hi) ==
  IF lo = hi THEN BnShift(BnMulLimb(a, b[lo]), lo - 1)
  ELSE LET mid == (lo + hi) \div 2
       IN BnAdd(BnMulR(a, b, lo, mid), BnMulR(a, b, mid + 1, hi))
BnMul(a, b) ==
  IF a = << >> \/ b = << >> THEN << >>
  ELSE IF Len(a) >= Len(b) THEN BnMulR(a, b, 1, Len(b))
  ELSE BnMulR(b, a, 1, Len(a))

RECURSIVE BnPow(_, _)
BnPow(a, n) ==
  IF n = 0 THEN <<1>>
  ELSE LET h == BnPow(a, n \div 2)
           sq == BnMul(h, h)
       IN IF n % 2 = 0 THEN sq ELSE BnMul(sq, a)

\* the product lo * (lo+1) * ... * hi of small integers (1 when lo > hi)
RECURSIVE BnRangeProd(_, _)
BnRangeProd(lo, hi) ==
  IF lo > hi THEN <<1>>
  ELSE IF lo = hi THEN BnOfInt(lo)
  ELSE LET mid == (lo + hi) \div 2
       IN BnMul(BnRangeProd(lo, mid), BnRangeProd(mid + 1, hi))

-----------------------------------------------------------------------------
(* Fractions: [neg, n, d] is (-1)^neg * n / d, with d > 0 and neg false    *)
(* for zero.                                                               *)

Frac(neg, n, d) == [neg |-> neg /\ n # << >>, n |-> n, d |-> d]
FracOfInt(i) == IF i < 0 THEN Frac(TRUE, BnOfInt(-i), <<1>>) ELSE Frac(FALSE, BnOfInt(i), <<1>>)
FracOfBn(n) == Frac(FALSE, n, <<1>>)
FZero == FracOfInt(0)
FOne == FracOfInt(1)

FracIsZero(a) == a.n = << >>
FracNeg(a) == Frac(~a.neg, a.n, a.d)
FracAbs(a) == Frac(FALSE, a.n, a.d)
FracMul(a, b) == Frac(a.neg # b.neg, BnMul(a.n, b.n), BnMul(a.d, b.d))
\* a / b for b # 0
FracDiv(a, b) == Frac(a.neg # b.neg, BnMul(a.n, b.d), BnMul(a.d, b.n))

\* numerators an (sign aneg) and bn (sign bneg) added over the denominator d
FracSum(aneg, an, bneg, bn, d) ==
  IF aneg = bneg THEN Frac(aneg, BnAdd(an, bn), d)
  ELSE IF BnLe(bn, an) THEN Frac(aneg, BnSub(an, bn), d)
  ELSE Frac(bneg, BnSub(bn, an), d)
FracAdd(a, b) ==
  IF a.d = b.d THEN FracSum(a.neg, a.n, b.neg, b.n, a.d)
  ELSE FracSum(a.neg, BnMul(a.n, b.d), b.neg, BnMul(b.n, a.d), BnMul(a.d, b.d))
FracSub(a, b) == FracAdd(a, FracNeg(b))
\* a + b over the common multiple a.d * fa = b.d * fb of the denominators when
\* fa and fb are such cofactors, and over a.d * b.d otherwise: the same value
\* either way, with a smaller denominator.
FracAddOver(a, b, fa, fb) ==
  IF BnMul(a.d, fa) = BnMul(b.d, fb)
  THEN FracSum(a.neg, BnMul(a.n, fa), b.neg, BnMul(b.n, fb), BnMul(a.d, fa))
  ELSE FracAdd(a, b)

FracLt(a, b) ==
  IF a.neg /\ ~b.neg THEN TRUE
  ELSE IF ~a.neg /\ b.neg THEN FALSE
  ELSE IF ~a.neg THEN BnLt(BnMul(a.n, b.d), BnMul(b.n, a.d))
  ELSE BnLt(BnMul(b.n, a.d), BnMul(a.n, b.d))
FracLe(a, b) == ~FracLt(b, a)
FracEq(a, b) == a.neg = b.neg /\ BnMul(a.n, b.d) = BnMul(b.n, a.d)

\* Fraction.__pow__ with an integer exponent e >= 0: Fraction(n**e, d**e)
FracPow(a, e) == Frac(a.neg /\ e % 2 = 1, BnPow(a.n, e), BnPow(a.d, e))

-----------------------------------------------------------------------------
(* fact under @lru_cache(128).                                             *)

CacheSize == 128
MaxTermsR == 100
MaxTermsF == 1000

\* ProdTab[k] is reduce(operator.mul, range(2, k+1)), the left fold
\* ((2*3)*4)*...*k, for k in 1..MaxTermsF (ProdTab[1], the empty fold, is
\* never read: fact returns before the reduce when k < 2).
RECURSIVE ProdFold(_, _, _)
ProdFold(lo, hi, acc) ==
  IF lo = hi THEN << BnMulLimb(acc, lo) >>
  ELSE LET mid == (lo + hi) \div 2
           L == ProdFold(lo, mid, acc)
       IN L \o ProdFold(mid + 1, hi, L[Len(L)])
ProdTab == ProdFold(1, MaxTermsF, <<1>>)
reduce_mul_range(k) == ProdTab[k]

\* fact's body with range(2, k) for range(2, k+1)
fact_body_short(k) == IF k < 2 THEN <<1>> ELSE reduce_mul_range(k - 1)

\* the body of fact(k)
fact_body(k) == IF k < 2 THEN <<1>> ELSE reduce_mul_range(k)

\* The cache: the entries [key, val], least recently used first.
CacheHas(c, key) == \E i \in 1..Len(c) : c[i].key = key
CacheIdx(c, key) == CHOOSE i \in 1..Len(c) : c[i].key = key
CacheDrop(c, i) == SubSeq(c, 1, i - 1) \o SubSeq(c, i + 1, Len(c))
\* a hit: the entry becomes the most recently used one
cache_hit(c, key) ==
  LET i == CacheIdx(c, key) IN [ret |-> c[i].val, cache |-> Append(CacheDrop(c, i), c[i])]
\* cache_put that reuses the oldest entry's slot without giving it the new key
cache_put_stale_key(c, key, val) ==
  IF CacheHas(c, key) THEN c
  ELSE IF Len(c) < CacheSize THEN Append(c, [key |-> key, val |-> val])
  ELSE Append(Tail(c), [key |-> c[1].key, val |-> val])
\* cache_put without the look for a key stored since the miss
cache_put_blind(c, key, val) ==
  IF Len(c) < CacheSize THEN Append(c, [key |-> key, val |-> val])
  ELSE Append(Tail(c), [key |-> key, val |-> val])

\* cache_put that drops the entry used last from a full cache
cache_put_newest(c, key, val) ==
  IF CacheHas(c, key) THEN c
  ELSE IF Len(c) < CacheSize THEN Append(c, [key |-> key, val |-> val])
  ELSE Append(SubSeq(c, 1, Len(c) - 1), [key |-> key, val |-> val])

\* the insertion of a computed value: the least recently used entry leaves a
\* full cache; a key that is already there (put by another caller since the
\* miss) is left as it is
cache_put(c, key, val) ==
  IF CacheHas(c, key) THEN c
  ELSE IF Len(c) < CacheSize THEN Append(c, [key |-> key, val |-> val])
  ELSE Append(Tail(c), [key |-> key, val |-> val])
\* one whole call fact(key): [ret |-> the value returned, cache |-> the cache after]
fact(c, key) ==
  IF CacheHas(c, key) THEN cache_hit(c, key)
  ELSE LET val == fact_body(key) IN [ret |-> val, cache |-> cache_put(c, key, val)]

-----------------------------------------------------------------------------
(* The rational variant, Chapter16/ch16_ex3.py.                            *)

\* a threshold of 1E-2
eps_coarse == Frac(FALSE, <<1>>, <<100>>)
\* the float 1E-8 as Fraction.__lt__ sees it: Fraction(1E-8), exactly
\* 3022314549036573 / 2^78
eps == Frac(FALSE, <<6573, 4903, 3145, 3022>>, BnPow(<<2>>, 78))
below_eps(t) == FracLt(FracAbs(t), eps)

sqrt_pi == Frac(FALSE, <<2787, 7762, 6>>, <<7718, 8230, 3>>)

\* z ** (s + tk) with s + tk = e.n / e.d in lowest terms: exact for an integer
\* exponent (for a negative one Fraction(d ** -e, n ** -e), with the sign of
\* z); for a half-integer exponent Fraction.__pow__ computes
\* float(z) ** float(e), which is 0.0 for z = 0, the only z the model passes
\* to this operator with such an exponent.
z_pow(z, e) ==
  IF e.d # 1 THEN FZero
  ELSE IF e.n >= 0 THEN FracPow(z, e.n)
  ELSE Frac(z.neg /\ e.n % 2 = 1, BnPow(z.d, -e.n), BnPow(z.n, -e.n))

\* s + tk for s = [n, d] with d in {1, 2}
s_plus(s, tk) == [n |-> s.n + tk * s.d, d |-> s.d]

\* what the term at index tk raises: z ** (s + tk) divides by zero for z = 0
\* and a negative exponent, and the division by s + tk does for s + tk = 0
term_raises(s, z, tk) ==
  IF (FracIsZero(z) /\ s.n + tk * s.d < 0) \/ s.n + tk * s.d = 0
  THEN "ZeroDivisionError" ELSE "none"

\* terms(): the term at index tk, given fk = fact(tk)
term_R(s, z, tk, fk) ==
  LET e == s_plus(s, tk)
      t2 == FracDiv(z_pow(z, e),
                    Frac(e.n < 0, BnOfInt(IF e.n < 0 THEN -e.n ELSE e.n), BnOfInt(e.d)))
  IN FracMul(Frac(tk % 2 = 1, <<1>>, fk), t2)

\* sum(): the accumulator g plus the term t of index tk.  For an integer s
\* the sum is kept over the denominator z.d^(s+tk) * (s+tk) * (s+tk-1)!, a
\* multiple of the denominator of every term so far.
sum_add(g, t, s, z, tk) ==
  LET ft == BnRangeProd(tk + 1, s.n + tk - 1)
      fg == IF tk = 0 THEN BnMul(t.d, ft) ELSE BnMul(z.d, BnOfInt(s.n + tk))
  IN IF s.d = 1 /\ s.n >= 1 THEN FracAddOver(g, t, fg, ft) ELSE FracAdd(g, t)

\* Gamma_Half with the integer branch taken for every denominator up to 2
Gamma_Half_R_wide(c, a) ==
  IF a.d <= 2
  THEN LET f == fact(c, a.n - 1)
       IN [ret |-> FracOfBn(f.ret), cache |-> f.cache, err |-> "none", via |-> "fact"]
  ELSE [ret |-> FZero, cache |-> c, err |-> "ValueError", via |-> "raise"]

\* Gamma_Half(k) for a Fraction k = a.n / a.d in lowest terms:
\* [ret, cache, err, via], via the branch taken
Gamma_Half_R(c, a) ==
  IF a.d = 1
  THEN LET f == fact(c, a.n - 1)
       IN [ret |-> FracOfBn(f.ret), cache |-> f.cache, err |-> "none", via |-> "fact"]
  ELSE IF a.d = 2
  THEN LET n == (a.n - 1) \div 2
           f1 == fact(c, 2 * n)
           f2 == fact(f1.cache, n)
           q == FracDiv(FracOfBn(f1.ret), FracMul(FracOfBn(BnPow(<<4>>, n)), FracOfBn(f2.ret)))
       IN [ret |-> FracMul(q, sqrt_pi), cache |-> f2.cache, err |-> "none",
           via |-> "closed form"]
  ELSE [ret |-> FZero, cache |-> c, err |-> "ValueError", via |-> "raise"]

\* k // 2 for Fraction(k, 2)
half_floor(k) == [n |-> k \div 2, d |-> 1]

\* Fraction(k, 2) in lowest terms
half(k) == IF k % 2 = 0 THEN [n |-> k \div 2, d |-> 1] ELSE [n |-> k, d |-> 2]

-----------------------------------------------------------------------------
(* The float variant, Bonus/chi_sq.py.  A float is modelled by its class:  *)
(*   "zero"  0.0 or -0.0 (or the int 0 that sum() starts from)             *)
(*   "one"   1.0                                                           *)
(*   "pos", "neg"   a finite value above, below zero                       *)
(*   "posx"  a value above zero, finite or +inf                            *)
(*   "pinf", "ninf", "nan"                                                 *)
(*   "fin"   a finite value the model does not follow                      *)
(* which is exact for the statistics the float runs are given, x = 0.0 and *)
(* x = +inf: every operation on them yields a zero, an infinity or a nan.  *)

\* a * c <= b, settled by the lengths where they settle it (a, c not zero)
BnMulLe(a, c, b) ==
  IF Len(a) + Len(c) - 1 > Len(b) THEN FALSE
  ELSE IF Len(a) + Len(c) < Len(b) THEN TRUE
  ELSE BnLe(BnMul(a, c), b)

\* 2^1024 - 2^970: from here on a quotient rounds beyond the largest double,
\* 2^1024 - 2^971
DblOverflow == BnSub(BnPow(<<2>>, 1024), BnPow(<<2>>, 970))
\* 2^1075: a quotient of at most 2^-1075, half the smallest subnormal,
\* rounds to zero
DblUnderflow == BnPow(<<2>>, 1075)

\* a / b of two ints (a and b > 0 given without sign, neg the sign of the
\* quotient), rounded to the nearest double
int_true_div(neg, a, b) ==
  IF BnMulLe(b, DblOverflow, a) THEN "OverflowError"
  ELSE IF BnMulLe(a, DblUnderflow, b) THEN "zero"
  ELSE IF neg THEN "neg" ELSE "pos"

FltIsNan(a) == a = "nan"
FltIsInf(a) == a \in {"pinf", "ninf"}
FltIsNeg(a) == a \in {"neg", "ninf"}

\* a * b
flt_mul(a, b) ==
  IF FltIsNan(a) \/ FltIsNan(b) THEN "nan"
  ELSE IF (a = "zero" /\ FltIsInf(b)) \/ (FltIsInf(a) /\ b = "zero") THEN "nan"
  ELSE IF a = "zero" /\ b \in {"one", "pos", "neg", "zero", "fin"} THEN "zero"
  ELSE IF b = "zero" /\ a \in {"one", "pos", "neg", "fin"} THEN "zero"
  ELSE IF FltIsInf(a) /\ b \in {"one", "pos", "neg", "pinf", "ninf", "posx"}
       THEN (IF FltIsNeg(a) # FltIsNeg(b) THEN "ninf" ELSE "pinf")
  ELSE IF FltIsInf(b) /\ a \in {"one", "pos", "neg", "posx"}
       THEN (IF FltIsNeg(a) # FltIsNeg(b) THEN "ninf" ELSE "pinf")
  ELSE IF a \in {"one", "pos", "posx"} /\ b \in {"one", "pos", "posx"} THEN "posx"
  ELSE "fin"

\* a / b for b above zero
flt_div_pos(a, b) ==
  IF FltIsNan(a) THEN "nan"
  ELSE IF a = "zero" THEN "zero"
  ELSE IF FltIsInf(a) /\ b \in {"one", "pos"} THEN a
  ELSE "fin"

\* a + b
flt_add(a, b) ==
  IF FltIsNan(a) \/ FltIsNan(b) THEN "nan"
  ELSE IF a = "zero" THEN b
  ELSE IF b = "zero" THEN a
  ELSE IF FltIsInf(a) /\ FltIsInf(b) THEN (IF a = b THEN a ELSE "nan")
  ELSE IF FltIsInf(a) THEN a
  ELSE IF FltIsInf(b) THEN b
  ELSE "fin"

\* 1 - a
flt_one_minus(a) ==
  IF FltIsNan(a) THEN "nan"
  ELSE IF a = "zero" THEN "one"
  ELSE IF a = "pinf" THEN "ninf"
  ELSE IF a = "ninf" THEN "pinf"
  ELSE "fin"

\* abs(t) < 1E-8 (false for a nan, as every comparison with a nan is)
below_eps_F(t) == t = "zero"

\* terms(): the term ((-1)**tk/fact(tk)) * (z**(s+tk)/(s+tk)), given
\* fk = fact(tk); z is "zero" or "pinf" and s + tk > 0
term_F(z0, tk0, fk) ==
  LET c == int_true_div(tk0 % 2 = 1, <<1>>, fk)
  IN flt_mul(c, flt_div_pos(z0, "pos"))

\* Gamma2(z0) for an integer 1 <= z0 <= 100: t_1 = sqrt(2*pi/z0) and
\* t_2 = (z0 + 1/(12*z0 - 1/(10*z0)))/e are finite and above zero, and
\* t_2 < z0 <= 100 keeps t_2**z0 below 1e200: no overflow
Gamma2(z0) == "pos"

\* Gamma_Half(k0/2): [ret, cache, err]
Gamma_Half_F(c, k0) ==
  IF k0 % 2 = 1
  THEN \* abs(k - int(k) - .5) is exactly 0: n = int(k - .5)
       LET n == (k0 - 1) \div 2
           f1 == fact(c, 2 * n)
           f2 == fact(f1.cache, n)
           q == int_true_div(FALSE, f1.ret, BnMul(BnPow(<<4>>, n), f2.ret))
       IN IF q = "OverflowError"
          THEN [ret |-> "nan", cache |-> f2.cache, err |-> "OverflowError"]
          ELSE [ret |-> flt_mul(q, "pos"), cache |-> f2.cache, err |-> "none"]
  ELSE [ret |-> Gamma2(k0 \div 2), cache |-> c, err |-> "none"]

-----------------------------------------------------------------------------
(* Floats with a value.  Where the value of a finite float matters it is    *)
(* modelled by an enclosure [lo, hi], two Fractions with lo <= value <= hi; *)
(* a float known exactly (a literal, a constant of math) has lo = hi.  A    *)
(* float expression of the source is written as its syntax tree, and         *)
(* flo_eval evaluates the tree bottom-up: each operation encloses the exact  *)
(* result of every value in its operands' enclosures, widens that by the     *)
(* rounding error of the operation (half an ulp for + - * / sqrt and        *)
(* int/int, one ulp for pow and exp), and is cut to Prec limbs, outwards.    *)
(* This holds for results in the range of the normal doubles, where the     *)
(* runs that use enclosures stay.                                           *)

Prec == 2 * 3

BnTop(a, j) == SubSeq(a, j + 1, Len(a))
\* the limbs to cut from n and d
CutOf(a) ==
  LET m == IF Len(a.n) < Len(a.d) THEN Len(a.n) ELSE Len(a.d)
  IN IF m > Prec THEN m - Prec ELSE 0
\* a value on short limbs, at least a (up) or at most a (not up)
FracCut(a, up) ==
  LET cut(j, grow) ==
        LET inc == BnAdd(BnTop(IF grow THEN a.n ELSE a.d, j), <<1>>)
        IN [neg |-> a.neg,
            n |-> IF grow THEN inc ELSE BnTop(a.n, j),
            d |-> IF grow THEN BnTop(a.d, j) ELSE inc]
  IN IF CutOf(a) = 0 THEN a ELSE cut(CutOf(a), up # a.neg)

\* half an ulp and one ulp, relative
HalfUlp == Frac(FALSE, <<1>>, BnPow(<<2>>, 53))
OneUlp == Frac(FALSE, <<1>>, BnPow(<<2>>, 52))

Enc(lo, hi) == [lo |-> lo, hi |-> hi]
EncExact(a) == Enc(a, a)
EncOf(f) == Enc(f[1], f[2])
Side(a, i) == IF i = 1 THEN a.lo ELSE a.hi
EncCut(a) == EncOf([i \in 1..2 |-> FracCut(Side(a, i), i = 2)])
\* a after a rounding of relative error u at most, cut
EncRounded(a, u) ==
  LET away(v, grow) == Frac(v.neg, BnMul(v.n, IF grow THEN BnAdd(u.d, u.n) ELSE BnSub(u.d, u.n)),
                            BnMul(v.d, u.d))
  IN EncOf([i \in 1..2 |-> FracCut(away(Side(a, i), (i = 2) # Side(a, i).neg), i = 2)])

\* the exact results
EncNeg(a) == Enc(FracNeg(a.hi), FracNeg(a.lo))
EncSum(a, b) == EncOf([i \in 1..2 |-> FracAdd(Side(a, i), Side(b, i))])
\* 1 / b for b without zero
EncInv(b) == EncOf([i \in 1..2 |-> Frac(Side(b, 3 - i).neg, Side(b, 3 - i).d, Side(b, 3 - i).n)])
EncProd(a, b) ==
  LET ends(P) == [low \in BOOLEAN |->
                    CHOOSE p \in P : \A q \in P : FracLe(IF low THEN p ELSE q, IF low THEN q ELSE p)]
      span(e) == Enc(e[TRUE], e[FALSE])
  IN IF ~a.lo.neg /\ ~b.lo.neg THEN Enc(FracMul(a.lo, b.lo), FracMul(a.hi, b.hi))
     ELSE IF a.hi.neg /\ ~b.lo.neg THEN Enc(FracMul(a.lo, b.hi), FracMul(a.hi, b.lo))
     ELSE span(ends({ FracMul(Side(a, i), Side(b, j)) : i \in 1..2, j \in 1..2 }))

\* an upper bound of the square root of v > 0: n Newton steps from w, each
\* cut upwards (every step from a w > 0 lands at or above the root)
RECURSIVE SqrtUp(_, _, _)
SqrtUp(v, w, n) ==
  IF n = 0 THEN w
  ELSE CHOOSE r \in { SqrtUp(v, w1, n - 1) :
                        w1 \in {FracCut(FracDiv(FracAdd(w, FracDiv(v, w)), FracOfInt(2)), TRUE)} } : TRUE
SqrtSteps == 3 * 3
\* the square roots of a above zero
EncSqrt(a) ==
  LET root(u) == Enc(FracDiv(a.lo, u[1]), u[2])
  IN root([i \in 1..2 |-> SqrtUp(Side(a, i), FracAdd(FOne, Side(a, i)), SqrtSteps)])

\* the syntax trees
flo_val(v) == [op |-> "lit", v |-> v]
flo_lit(a) == flo_val(EncExact(a))
flo_int(i) == flo_lit(FracOfInt(i))
flo_node(op, a, b) == [op |-> op, a |-> a, b |-> b]
flo_add(a, b) == flo_node("+", a, b)
flo_sub(a, b) == flo_node("-", a, b)
flo_mul(a, b) == flo_node("*", a, b)
flo_div(a, b) == flo_node("/", a, b)
flo_sqrt(a) == flo_node("sqrt", a, flo_int(1))
flo_sq(a) == flo_node("sq", a, flo_int(1))
\* a result of libm, within one ulp of a
flo_ulp(a) == flo_node("ulp", a, flo_int(1))
\* a ** (e4 / 4), e4 >= 0 an integer
flo_pow(a, e4) == [op |-> "**", a |-> a, e |-> e4]

\* a ** n for an integer n >= 1, by squaring
RECURSIVE flo_ipow(_, _)
flo_ipow(a, n) ==
  IF n = 1 THEN a
  ELSE IF n % 2 = 0 THEN flo_sq(flo_ipow(a, n \div 2))
  ELSE flo_mul(flo_sq(flo_ipow(a, n \div 2)), a)
\* pow(a, e4 / 4) for a value a above zero: a to the integer part of the
\* exponent, times the square root of a for a half in it, times the square
\* root of that for a quarter
pow_tree(a, e4) ==
  LET whole == IF e4 \div 4 = 0 THEN flo_int(1) ELSE flo_ipow(a, e4 \div 4)
      halves == IF (e4 \div 2) % 2 = 1 THEN flo_mul(whole, flo_sqrt(a)) ELSE whole
  IN flo_ulp(IF e4 % 2 = 1 THEN flo_mul(halves, flo_sqrt(flo_sqrt(a))) ELSE halves)

\* one operation on the values a and b of the operands
flo_apply(op, a, b) ==
  LET y == IF op = "-" THEN EncNeg(b) ELSE IF op = "/" THEN EncInv(b)
           ELSE IF op = "sq" THEN a ELSE b
      exact(w) == IF op \in {"+", "-"} THEN EncSum(a, w)
                  ELSE IF op \in {"*", "/", "sq"} THEN EncProd(a, w)
                  ELSE IF op = "sqrt" THEN EncSqrt(a)
                  ELSE a
  IN EncRounded(exact(y), IF op = "ulp" THEN OneUlp ELSE HalfUlp)

\* the value of a tree; the operands are evaluated first
RECURSIVE flo_eval(_)
flo_eval(e) ==
  IF e.op = "lit" THEN e.v
  ELSE IF e.op = "**"
  THEN CHOOSE r \in { flo_eval(pow_tree(flo_val(v), e.e)) : v \in {flo_eval(e.a)} } : TRUE
  ELSE CHOOSE r \in { flo_apply(e.op, v[1], v[2]) : v \in {<<flo_eval(e.a), flo_eval(e.b)>>} } : TRUE

\* math.pi and math.e
math_pi == Frac(FALSE, <<3555, 1900, 2797, 884>>, BnPow(<<2>>, 48))
math_e == Frac(FALSE, <<8073, 1486, 265, 6121>>, BnPow(<<2>>, 51))

\* Gamma2(z) for a float z above zero whose double is z4 / 4, as a tree
Gamma2_flo(z4) ==
  LET zf == flo_lit(Frac(FALSE, BnOfInt(z4), <<4>>))
      t_1 == flo_sqrt(flo_div(flo_mul(flo_int(2), flo_lit(math_pi)), zf))
      inner == flo_sub(flo_mul(flo_int(12), zf), flo_div(flo_int(1), flo_mul(flo_int(10), zf)))
      t_2 == flo_div(flo_add(zf, flo_div(flo_int(1), inner)), flo_lit(math_e))
  IN flo_mul(t_1, flo_pow(t_2, z4))

\* math.sqrt(math.pi)
math_sqrt_pi == flo_sqrt(flo_lit(math_pi))

\* Gamma_Half(k) of the float variant for a float k above zero whose double
\* is k4 / 4: [ret, cache, err, via].  abs(k - int(k) - .5) is 0 for k4 % 4 = 2
\* and at least a quarter otherwise.
Gamma_Half_enc(c, k4) ==
  LET closed == k4 % 4 = 2
      n == (k4 - 2) \div 4
      ret(f, den) ==
        LET over == closed /\ int_true_div(FALSE, f[1].ret, den) = "OverflowError"
        IN [ret |-> IF over THEN EncExact(FZero)
                    ELSE flo_eval(IF closed
                                  THEN flo_mul(flo_div(flo_lit(FracOfBn(f[1].ret)),
                                                       flo_lit(FracOfBn(den))),
                                               math_sqrt_pi)
                                  ELSE Gamma2_flo(k4)),
            cache |-> IF closed THEN f[2].cache ELSE c,
            err |-> IF over THEN "OverflowError" ELSE "none",
            via |-> IF closed THEN "closed form" ELSE "Gamma2"]
      calls(f1) == <<f1, fact(f1.cache, IF closed THEN n ELSE 0)>>
      both(f) == ret(f, BnMul(BnPow(<<4>>, IF closed THEN n ELSE 0), f[2].ret))
  IN IF closed THEN both(calls(fact(c, 2 * n))) ELSE ret(<<[ret |-> <<1>>, cache |-> c]>>, <<1>>)

-----------------------------------------------------------------------------
(* The state.                                                              *)

VARIABLES
  pc,       \* "idle", "terms" (gamma's pipeline is running), "summed" (gamma has returned), "done"
  x, k,     \* the arguments of the cdf call
  s, z,     \* the arguments of the gamma call: s = [n, d], z a value
  tk,       \* the loop variable k of terms()
  sigma,    \* the accumulator of sum()
  warned,   \* warnings.warn was called during this cdf call
  raised,   \* the exception this cdf call ended with, or "none"
  result,   \* the value this cdf call returned
  cache,    \* fact's lru_cache
  ncalls,   \* the cdf calls started
  prev,     \* the cdf call completed before this one: [x, k, result], or NoCall
  \* the runs of fact calls made from outside cdf:
  sweep,    \* the next argument of the sweep fact(0), fact(1), ... of a terms() loop
  nfact,    \* the other fact calls started
  last,     \* the fact call completed last and the one before it: <<[arg, ret, err, hit], ...>>
  evicted,  \* the keys the cache has dropped so far (kept by these runs only)
  thr,      \* each concurrent caller: [pc, arg, ret, done, dup]
  gh,       \* the Gamma_Half call made last from outside cdf, or NoCall
  ty        \* the Python types of the rational cdf call: [sum, ret, floats]

cdfVars == <<pc, x, k, s, z, tk, sigma, warned, raised, result, ncalls, prev>>
factVars == <<sweep, nfact, last, evicted, thr>>
vars == <<cdfVars, cache, factVars, gh, ty>>

\* The types: sum is the type of the accumulator of sum() in gamma ("int"
\* while nothing was added to the start value 0), ret the type of the value
\* the call returned ("none" before that), floats whether a float was computed
\* on the way.
NoTypes == [sum |-> "int", ret |-> "none", floats |-> FALSE]
\* the type of a / b
type_div(a, b) ==
  IF a = "float" \/ b = "float" \/ (a = "int" /\ b = "int") THEN "float" ELSE "Fraction"
\* the type of a + b, a - b and a * b
type_arith(a, b) ==
  IF a = "float" \/ b = "float" THEN "float"
  ELSE IF a = "int" /\ b = "int" THEN "int" ELSE "Fraction"
\* the type of z ** e for Fractions z and e
type_pow(e) == IF e.d = 1 THEN "Fraction" ELSE "float"

Threads == {1, 2}
ThreadIdle == [pc |-> "idle", arg |-> 0, ret |-> << >>, done |-> FALSE, dup |-> FALSE]
InitFact ==
  /\ sweep = 0 /\ nfact = 0 /\ last = << >> /\ evicted = {}
  /\ thr = [t \in Threads |-> ThreadIdle]
  /\ gh = [k |-> 0]
  /\ ty = NoTypes

MaxK == 4
MaxCalls == 2
NoCall == [k |-> 0]

\* The statistics x of the rational runs: 0; two neighbours on either side of
\* the point where the second term of gamma(1, x/2) reaches the threshold; 2;
\* and 78, whose series is cut by the ceiling of terms().
XsR == { FracOfInt(0),
         Frac(FALSE, BnOfInt(28284), BnPow(<<10>>, 8)),
         Frac(FALSE, BnOfInt(28286), BnPow(<<10>>, 8)),
         FracOfInt(2),
         FracOfInt(78) }
\* the statistics of the runs of successive calls
XsSeq == { x0 \in XsR : FracLt(x0, FracOfInt(3)) }

InitR ==
  /\ pc = "idle" /\ x = FZero /\ k = 0 /\ s = half(0) /\ z = FZero /\ tk = 0
  /\ sigma = FZero /\ warned = FALSE /\ raised = "none" /\ result = FZero
  /\ cache = << >> /\ ncalls = 0 /\ prev = NoCall
  /\ InitFact

\* cdf(x0, k0) is called and calls gamma(Fraction(k0, 2), Fraction(x0/2)); an odd
\* k0 (a half-integer s) is modelled for x0 = 0 only.
cdf_call_R(x0, k0) ==
  /\ pc \in {"idle", "done"} /\ ncalls < MaxCalls
  /\ k0 % 2 = 1 => FracIsZero(x0)
  /\ prev' = IF pc = "done" THEN [x |-> x, k |-> k, result |-> result] ELSE prev
  /\ x' = x0 /\ k' = k0
  /\ s' = half(k0) /\ z' = FracDiv(x0, FracOfInt(2))
  /\ tk' = 0 /\ sigma' = FZero /\ warned' = FALSE /\ raised' = "none"
  /\ pc' = "terms" /\ ncalls' = ncalls + 1
  /\ ty' = NoTypes
  /\ UNCHANGED <<result, cache>>
  /\ UNCHANGED <<factVars, gh>>

\* gamma_term_R with a take_until that passes the element that ends it on to
\* sum() before it stops
gamma_term_R_inclusive ==
  /\ pc = "terms" /\ tk < MaxTermsR /\ term_raises(s, z, tk) = "none"
  /\ LET f == fact(cache, tk)
         t == term_R(s, z, tk, f.ret)
     IN /\ cache' = f.cache
        /\ sigma' = sum_add(sigma, t, s, z, tk)
        /\ IF below_eps(t)
           THEN pc' = "summed" /\ UNCHANGED tk
           ELSE tk' = tk + 1 /\ pc' = pc
  /\ ty' = [ty EXCEPT !.sum = "Fraction",
                      !.floats = @ \/ type_pow(s_plus(s, tk)) = "float"]
  /\ UNCHANGED <<x, k, s, z, warned, raised, result, ncalls, prev>>
  /\ UNCHANGED <<factVars, gh>>

\* gamma_term_R with a terms() that has the factorial of the next index
\* computed before the term of this one is tested
gamma_term_R_eager ==
  /\ pc = "terms" /\ tk < MaxTermsR /\ term_raises(s, z, tk) = "none"
  /\ LET f == fact(cache, tk)
         t == term_R(s, z, tk, f.ret)
     IN /\ cache' = fact(f.cache, tk + 1).cache
        /\ IF below_eps(t)
           THEN pc' = "summed" /\ UNCHANGED <<sigma, tk>>
           ELSE sigma' = sum_add(sigma, t, s, z, tk) /\ tk' = tk + 1 /\ pc' = pc
  /\ ty' = ty
  /\ UNCHANGED <<x, k, s, z, warned, raised, result, ncalls, prev>>
  /\ UNCHANGED <<factVars, gh>>

\* One turn of sum(take_until(..., terms(s, z))): terms() yields the term of
\* index tk, take_until tests it and either ends the pipeline or passes it on to
\* sum(), which adds it.  The term is a Fraction, made from the float that
\* z ** (s + tk) is for a half-integer s; sum() adds it to the int 0 or to a
\* Fraction.
gamma_term_R ==
  /\ pc = "terms" /\ tk < MaxTermsR
  /\ IF term_raises(s, z, tk) # "none"
     THEN /\ raised' = term_raises(s, z, tk) /\ pc' = "done"
          /\ UNCHANGED <<sigma, tk, cache, ty>>
     ELSE LET f == fact(cache, tk)
              t == term_R(s, z, tk, f.ret)
          IN /\ cache' = f.cache /\ raised' = raised
             /\ IF below_eps(t)
                THEN /\ pc' = "summed" /\ UNCHANGED <<sigma, tk>>
                     /\ ty' = [ty EXCEPT !.floats = @ \/ type_pow(s_plus(s, tk)) = "float"]
                ELSE /\ sigma' = sum_add(sigma, t, s, z, tk) /\ tk' = tk + 1 /\ pc' = pc
                     /\ ty' = [ty EXCEPT !.sum = type_arith(@, "Fraction"),
                                         !.floats = @ \/ type_pow(s_plus(s, tk)) = "float"]
  /\ UNCHANGED <<x, k, s, z, warned, result, ncalls, prev>>
  /\ UNCHANGED <<factVars, gh>>

\* gamma_exhaust_R with a terms() that has no end: at the end of range(100) it
\* changes its warning and the pipeline stays where it is, turn after turn
gamma_exhaust_R_on ==
  /\ pc = "terms" /\ tk = MaxTermsR
  /\ warned' = ~warned
  /\ UNCHANGED <<pc, x, k, s, z, tk, sigma, raised, result, cache, ncalls, prev>>
  /\ UNCHANGED <<factVars, gh, ty>>

\* range(100) is exhausted: terms() warns and ends, and so does the pipeline
gamma_exhaust_R ==
  /\ pc = "terms" /\ tk = MaxTermsR
  /\ warned' = TRUE /\ pc' = "summed"
  /\ UNCHANGED <<x, k, s, z, tk, sigma, raised, result, cache, ncalls, prev>>
  /\ UNCHANGED <<factVars, gh, ty>>

\* the value of cdf's return expression, g what gamma returned and G what
\* Gamma_Half returned
cdf_value_R(g, G) == FracSub(FOne, FracDiv(g, G))

\* the type of what Gamma_Half returned: fact returns an int, the closed form
\* is a product with the Fraction sqrt_pi
type_Gamma_Half(G) == IF G.via = "fact" THEN "int" ELSE "Fraction"
\* the type of cdf's return expression, g and G the types of its operands
type_cdf_value(g, G) == type_arith("int", type_div(g, G))

\* cdf's return: 1 - gamma(...) / Gamma_Half(Fraction(k, 2))
cdf_return_R ==
  /\ pc = "summed" /\ k # 0
  /\ LET G == Gamma_Half_R(cache, half(k))
     IN /\ cache' = G.cache
        /\ raised' = G.err
        /\ result' = IF G.err = "none" THEN cdf_value_R(sigma, G.ret) ELSE result
        /\ ty' = IF G.err # "none" THEN ty
                 ELSE [ty EXCEPT !.ret = type_cdf_value(ty.sum, type_Gamma_Half(G)),
                                 !.floats = @ \/ type_div(ty.sum, type_Gamma_Half(G)) = "float"]
  /\ pc' = "done"
  /\ UNCHANGED <<x, k, s, z, tk, sigma, warned, ncalls, prev>>
  /\ UNCHANGED <<factVars, gh>>

NextR ==
  \/ \E x0 \in XsR, k0 \in 1..MaxK : pc = "idle" /\ cdf_call_R(x0, k0)
  \/ gamma_term_R
  \/ gamma_exhaust_R
  \/ cdf_return_R

\* one cdf call of the rational variant, from an empty cache
SpecR == InitR /\ [][NextR]_vars

\* The same call in an interpreter that keeps running the generator pipeline
\* of gamma: while sum() is drawing terms, the next turn of the pipeline is
\* taken.  Nothing is assumed about the caller making a call.  This is weak
\* fairness of the turn written out, WF_vars(gamma_term_R \/ gamma_exhaust_R):
\* a turn is possible exactly in the states where pc = "terms", and each turn
\* changes pc, tk or warned.
SpecRLive ==
  /\ SpecR
  /\ \/ []<>(pc # "terms")
     \/ []<><<gamma_term_R \/ gamma_exhaust_R>>_vars

\* Successive cdf calls of the rational variant, for the statistics below 3:
\* their series end within a dozen terms, so that terms() never exhausts
\* range(100) in these runs.
NextSeq ==
  \/ \E x0 \in XsSeq, k0 \in 1..MaxK : cdf_call_R(x0, k0)
  \/ gamma_term_R
  \/ cdf_return_R

SpecSeq == InitR /\ [][NextSeq]_vars

-----------------------------------------------------------------------------
(* The float variant's runs.                                               *)

\* The degrees of freedom of the float runs at x = 0.0: the odd ones up to
\* MaxKF, which lie on either side of 345, the first whose (2n)!/(4^n n!) is
\* beyond the doubles, and the even ones as far as Gamma2 is modelled.
MaxKF == 100 * MaxK
KsF == { k0 \in 1..MaxKF : k0 % 2 = 1 \/ k0 <= 200 }
\* "tiny" is 5e-324, the least double above zero: a positive x whose half,
\* the z of gamma, rounds to 0.0
InputsF ==
  ({"zero"} \X KsF) \cup ({"pinf"} \X (1..MaxK))
    \cup ({"tiny"} \X { k0 \in KsF : k0 <= MaxK \/ k0 > MaxKF - 60 })

InitF ==
  /\ pc = "idle" /\ x = "zero" /\ k = 0 /\ s = half(0) /\ z = "zero" /\ tk = 0
  /\ sigma = "zero" /\ warned = FALSE /\ raised = "none" /\ result = "zero"
  /\ cache = << >> /\ ncalls = 0 /\ prev = NoCall
  /\ InitFact

\* cdf(x0, k0) is called and calls gamma(k0/2, x0/2)
cdf_call_F(x0, k0) ==
  /\ pc = "idle"
  /\ x' = x0 /\ k' = k0
  /\ s' = half(k0) /\ z' = (IF x0 = "tiny" THEN "zero" ELSE x0)
  /\ tk' = 0 /\ sigma' = "zero" /\ warned' = FALSE /\ raised' = "none"
  /\ pc' = "terms" /\ ncalls' = ncalls + 1
  /\ UNCHANGED <<result, cache, prev>>
  /\ UNCHANGED <<factVars, gh, ty>>

\* One turn of sum(take_until(..., terms(s, z))) on the pipeline's state
\* st = [tk, sigma, cache, stopped]: terms() yields the term of index tk,
\* take_until tests it and either ends the pipeline or passes it on to sum().
gamma_turn_F(z0, st) ==
  LET f == fact(st.cache, st.tk)
      t == term_F(z0, st.tk, f.ret)
  IN IF below_eps_F(t)
     THEN [st EXCEPT !.cache = f.cache, !.stopped = TRUE]
     ELSE [tk |-> st.tk + 1, sigma |-> flt_add(st.sigma, t), cache |-> f.cache,
           stopped |-> FALSE]

\* the turns for the indices lo..hi of range(1000), as far as the pipeline runs
RECURSIVE gamma_turns_F(_, _, _, _)
gamma_turns_F(z0, st, lo, hi) ==
  IF st.stopped THEN st
  ELSE IF lo = hi THEN gamma_turn_F(z0, st)
  ELSE LET mid == (lo + hi) \div 2
       IN gamma_turns_F(z0, gamma_turns_F(z0, st, lo, mid), mid + 1, hi)

\* The call gamma(k/2, x/2) from start to return: the pipeline runs until
\* take_until ends it or range(1000) is exhausted, where terms() just ends.
gamma_F ==
  /\ pc = "terms"
  /\ \E st \in { gamma_turns_F(z, [tk |-> 0, sigma |-> "zero", cache |-> cache,
                                   stopped |-> FALSE], 0, MaxTermsF - 1) } :
        tk' = st.tk /\ sigma' = st.sigma /\ cache' = st.cache
  /\ pc' = "summed"
  /\ UNCHANGED <<x, k, s, z, warned, raised, result, ncalls, prev>>
  /\ UNCHANGED <<factVars, gh, ty>>

cdf_value_F(g, G) == flt_one_minus(flt_div_pos(g, G))

\* cdf's return: 1 - gamma(...) / Gamma_Half(k/2)
cdf_return_F ==
  /\ pc = "summed"
  /\ LET G == Gamma_Half_F(cache, k)
     IN /\ cache' = G.cache
        /\ raised' = G.err
        /\ result' = IF G.err = "none" THEN cdf_value_F(sigma, G.ret) ELSE result
  /\ pc' = "done"
  /\ UNCHANGED <<x, k, s, z, tk, sigma, warned, ncalls, prev>>
  /\ UNCHANGED <<factVars, gh, ty>>

NextF ==
  \/ \E in \in InputsF : cdf_call_F(in[1], in[2])
  \/ gamma_F
  \/ cdf_return_F

\* one cdf call of the float variant, from an empty cache
SpecF == InitF /\ [][NextF]_vars

-----------------------------------------------------------------------------
(* Runs of fact calls.  A run starts as terms() starts, with the sweep     *)
(* fact(0), fact(1), ..., here up to a full cache; the calls after it take *)
(* their arguments in any order.                                           *)

MaxFactCalls == 3
\* The arguments of the calls after the sweep: a negative one, the sweep's
\* first two keys and its last one, and two keys beyond it.
Args == {-1, 0, 1, CacheSize - 1, CacheSize, CacheSize + 1}
\* the arguments of the concurrent callers
ArgsC == {0, CacheSize, CacheSize + 1}

\* the key that cache_put(c, key, ...) drops, if it drops one
dropped(c, key) ==
  IF ~CacheHas(c, key) /\ Len(c) = CacheSize THEN {c[1].key} ELSE {}

\* the call fact(n) from start to return; the body of fact raises nothing
fact_run(n) ==
  LET f == fact(cache, n)
      r == [arg |-> n, ret |-> f.ret, err |-> "none", hit |-> CacheHas(cache, n)]
  IN /\ cache' = f.cache
     /\ last' = IF last = << >> THEN <<r>> ELSE <<r, last[1]>>
     /\ evicted' = evicted \cup dropped(cache, n)

fact_sweep ==
  /\ sweep < CacheSize
  /\ fact_run(sweep)
  /\ sweep' = sweep + 1
  /\ UNCHANGED <<nfact, thr>>
  /\ UNCHANGED <<cdfVars, gh, ty>>

fact_call(n) ==
  /\ sweep = CacheSize /\ nfact < MaxFactCalls
  /\ fact_run(n)
  /\ nfact' = nfact + 1
  /\ UNCHANGED <<sweep, thr>>
  /\ UNCHANGED <<cdfVars, gh, ty>>

NextCache ==
  \/ fact_sweep
  \/ \E n \in Args : fact_call(n)

\* fact calls one after the other
SpecCache == InitR /\ [][NextCache]_vars

\* A caller enters fact(n): the wrapper looks the key up.  On a hit it returns
\* the stored value; on a miss it goes on to run the body, outside the cache.
thread_lookup(t, n) ==
  /\ sweep = CacheSize /\ nfact < MaxFactCalls
  /\ thr[t].pc = "idle"
  /\ nfact' = nfact + 1
  /\ IF CacheHas(cache, n)
     THEN LET h == cache_hit(cache, n)
          IN /\ cache' = h.cache
             /\ thr' = [thr EXCEPT ![t] = [pc |-> "idle", arg |-> n, ret |-> h.ret,
                                           done |-> TRUE, dup |-> FALSE]]
     ELSE /\ cache' = cache
          /\ thr' = [thr EXCEPT ![t] = [pc |-> "missed", arg |-> n, ret |-> << >>,
                                        done |-> FALSE, dup |-> FALSE]]
  /\ UNCHANGED <<sweep, last, evicted>>
  /\ UNCHANGED <<cdfVars, gh, ty>>

\* The caller has run the body: the wrapper stores the value, unless the key
\* has come into the cache meanwhile (dup), and returns it.
thread_store(t) ==
  /\ thr[t].pc = "missed"
  /\ LET n == thr[t].arg
         val == fact_body(n)
     IN /\ cache' = cache_put(cache, n, val)
        /\ evicted' = evicted \cup dropped(cache, n)
        /\ thr' = [thr EXCEPT ![t] = [pc |-> "idle", arg |-> n, ret |-> val,
                                      done |-> TRUE, dup |-> CacheHas(cache, n)]]
  /\ UNCHANGED <<sweep, nfact, last>>
  /\ UNCHANGED <<cdfVars, gh, ty>>

NextConc ==
  \/ fact_sweep
  \/ \E t \in Threads, n \in ArgsC : thread_lookup(t, n)
  \/ \E t \in Threads : thread_store(t)

\* fact calls of concurrent callers
SpecConc == InitR /\ [][NextConc]_vars

-----------------------------------------------------------------------------
(* Calls of Gamma_Half and of gamma from outside cdf, one call from the     *)
(* state after import.                                                     *)

MaxArg == 10
Gcd(a, b) == CHOOSE g \in 1..a : a % g = 0 /\ b % g = 0
                                 /\ \A h \in (g + 1)..a : ~(a % h = 0 /\ b % h = 0)
\* The arguments of the rational Gamma_Half: ints, Fractions in lowest terms
\* with the denominators 1 to 4, and two floats.
GHArgsR ==
  { [ty |-> "int", n |-> n, d |-> 1] : n \in 1..MaxArg }
  \cup { [ty |-> "Fraction", n |-> a[1], d |-> a[2]] :
           a \in { b \in (1..(2 * MaxArg + 1)) \X (1..4) : Gcd(b[1], b[2]) = 1 } }
  \cup { [ty |-> "float", n |-> n, d |-> 2] : n \in 1..2 }
\* the arguments of the float Gamma_Half, in quarters: up to MaxArg / 2, and
\* 171.5 and 172.5
GHArgsF == 1..(2 * MaxArg) \cup {686, 690}
\* the arguments of gamma
GArgsS == {-1, 0, 1, 2}
GArgsZ == { Frac(TRUE, <<1>>, <<1>>), Frac(TRUE, <<1>>, <<2>>), FZero,
            Frac(FALSE, <<1>>, <<2>>), FOne }

\* Gamma_Half(k) of the rational variant for an argument of any type
Gamma_Half_arg_R(c, a) ==
  IF a.ty = "float" THEN [ret |-> FZero, cache |-> c, err |-> "ValueError", via |-> "raise"]
  ELSE Gamma_Half_R(c, [n |-> a.n, d |-> a.d])

Gamma_Half_call_R(a) ==
  /\ pc = "idle" /\ ncalls = 0
  /\ \E G \in {Gamma_Half_arg_R(cache, a)} :
        /\ cache' = G.cache
        /\ gh' = [variant |-> "rational", arg |-> a, ret |-> G.ret, err |-> G.err,
                  via |-> G.via]
  /\ ncalls' = 1
  /\ UNCHANGED <<pc, x, k, s, z, tk, sigma, warned, raised, result, prev>>
  /\ UNCHANGED <<factVars, ty>>

\* Gamma_Half of the float variant called with an empty cache, once for each
\* argument
Gamma_Half_F_tab == [k4 \in GHArgsF |-> Gamma_Half_enc(<< >>, k4)]

\* Gamma_Half of the float variant for a float k = K / 2^21 that lies within
\* one unit of a half-integer: the half-integer whose closed form is taken,
\* in quarters, or 0 where Gamma2 is taken.  The test abs(k-int(k)-.5) < ε is
\* computed exactly on such floats, ε being the double 1E-6, and the closed
\* form is taken with n = int(k-.5), where int cuts towards zero.
Gamma_Half_near(K) ==
  LET U == 2^21
      int(a) == IF a >= 0 THEN a \div U ELSE -((-a) \div U)
      off == K - int(K) * U - U \div 2
      near == \E d \in { Frac(FALSE, BnOfInt(IF off < 0 THEN -off ELSE off), BnOfInt(U)) },
                 e \in { Frac(FALSE, <<9645, 8286, 3664, 4722>>, BnPow(<<2>>, 72)) } :
                FracLt(d, e)
      n == int(K - U \div 2)
  IN IF near THEN 4 * n + 2 ELSE 0

\* Gamma_Half of the float variant is called with the float a.n / a.d: a
\* number of quarters, or a float next to a half-integer
Gamma_Half_call_F(a) ==
  /\ pc = "idle" /\ ncalls = 0 /\ cache = << >>
  /\ \E k4 \in { IF a.d = 4 THEN a.n ELSE Gamma_Half_near(a.n) } :
       \E G \in { IF k4 = 0
                  THEN [ret |-> EncExact(FZero), cache |-> cache, err |-> "none", via |-> "Gamma2"]
                  ELSE Gamma_Half_F_tab[k4] } :
        /\ cache' = G.cache
        /\ gh' = [variant |-> "float", arg |-> [ty |-> "float", n |-> a.n, d |-> a.d],
                  ret |-> G.ret, err |-> G.err, via |-> G.via]
  /\ ncalls' = 1
  /\ UNCHANGED <<pc, x, k, s, z, tk, sigma, warned, raised, result, prev>>
  /\ UNCHANGED <<factVars, ty>>

\* gamma(s0, z0) is called, s0 an integer
gamma_call_R(s0, z0) ==
  /\ pc = "idle" /\ ncalls = 0
  /\ s' = [n |-> s0, d |-> 1] /\ z' = z0
  /\ tk' = 0 /\ sigma' = FZero /\ warned' = FALSE /\ raised' = "none"
  /\ pc' = "terms" /\ ncalls' = 1
  /\ ty' = NoTypes
  /\ UNCHANGED <<x, k, result, cache, prev>>
  /\ UNCHANGED <<factVars, gh>>

\* gamma returns what sum() returned to the caller outside cdf
gamma_return_R ==
  /\ pc = "summed" /\ k = 0
  /\ result' = sigma /\ pc' = "done"
  /\ ty' = [ty EXCEPT !.ret = ty.sum]
  /\ UNCHANGED <<x, k, s, z, tk, sigma, warned, raised, cache, ncalls, prev>>
  /\ UNCHANGED <<factVars, gh>>

\* (the series of these arguments end long before range(100) does)
NextCalls ==
  \/ \E a \in GHArgsR : Gamma_Half_call_R(a)
  \/ \E a \in { [n |-> k4, d |-> 4] : k4 \in GHArgsF }
               \cup { [n |-> (2 * n0 + 1) * 2^20 + side, d |-> 2^21] :
                        n0 \in 0..3, side \in {-1, 0, 1} } : Gamma_Half_call_F(a)
  \/ \E s0 \in GArgsS, z0 \in GArgsZ : gamma_call_R(s0, z0)
  \/ gamma_term_R
  \/ gamma_return_R

SpecCalls == InitR /\ [][NextCalls]_vars

-----------------------------------------------------------------------------
(* The documented table.  Both docstrings of cdf show the same statistics  *)
(* (x, k) with the value of cdf rounded to some places; here the rational  *)
(* cdf computes a statistic and then the float cdf computes the same one,  *)
(* term by term, with the values of the floats enclosed.  sigma and result *)
(* are enclosures in these runs; what the rational variant computes        *)
(* exactly is enclosed too, in an enclosure cut to Prec limbs.             *)

\* the double the literal of a statistic denotes, n / 2^e
Dbl(n, e) == Frac(FALSE, n, BnPow(<<2>>, e))
\* round(cdf(x, k), places) as the docstring of each variant shows it, in
\* units of 10^-places; the runs take five of the documented statistics,
\* with odd and even k and the one that the variants document differently
Shown(x0, k0, places, r, f) ==
  [x |-> x0, k |-> k0, places |-> places, shown |-> [rational |-> r, float |-> f]]
Table ==
  { Shown(Dbl(<<6847, 460, 9215, 1152>>, 58), 1, 2, 95, 95),      \* 0.004
    Shown(Dbl(<<2809, 9555, 7479, 6096>>, 49), 1, 3, 1, 1),       \* 10.83
    Shown(Dbl(<<9877, 6591, 912, 8872>>, 51), 10, 2, 95, 95),     \* 3.94
    Shown(Dbl(<<5191, 2665, 3450, 2699>>, 47), 6, 5, 387, 387),   \* 19.18
    Shown(Dbl(<<9621, 1780, 8216, 426>>, 45), 4, 5, 1640, 1639) } \* 12.131

\* the variant at work: the rational cdf is the first call, the float cdf
\* the second
variant == IF ncalls = 1 THEN "rational" ELSE "float"

InitTable ==
  /\ pc = "idle"
  /\ x = FZero /\ k = 0
  /\ s = [n |-> 0, d |-> 1] /\ z = FZero
  /\ tk = 0 /\ sigma = EncExact(FZero) /\ warned = FALSE /\ raised = "none"
  /\ result = EncExact(FZero)
  /\ cache = << >> /\ ncalls = 0 /\ prev = NoCall
  /\ gh = [k |-> 0] /\ ty = NoTypes
  /\ InitFact

\* cdf(x, k) of the rational variant is called with a float x: gamma gets
\* Fraction(k, 2) and Fraction(x/2), the double x/2 exactly
table_call_R(e) ==
  /\ pc = "idle" /\ ncalls = 0
  /\ x' = e.x /\ k' = e.k
  /\ s' = half(e.k)
  /\ z' = FracDiv(e.x, FracOfInt(2))
  /\ tk' = 0 /\ sigma' = EncExact(FZero)
  /\ pc' = "terms" /\ ncalls' = 1
  /\ UNCHANGED <<warned, raised, result, cache, prev>>
  /\ UNCHANGED <<factVars, gh, ty>>

\* cdf(x, k) of the float variant is called with the same arguments: gamma
\* gets the floats k/2 and x/2
table_call_F ==
  /\ pc = "done" /\ ncalls = 1
  /\ prev' = [x |-> x, k |-> k, result |-> result]
  /\ tk' = 0 /\ sigma' = EncExact(FZero)
  /\ pc' = "terms" /\ ncalls' = 2
  /\ UNCHANGED <<x, k, s, z, warned, raised, result, cache>>
  /\ UNCHANGED <<factVars, gh, ty>>

\* The term of index tk.  The float variant computes
\* ((-1)**k/fact(k))*(z**(s+k)/(s+k)) in floats.  The rational variant
\* computes Fraction((-1)**k, fact(k)) * (Fraction(z**(s+k))/(s+k)), where the
\* power is a Fraction for an integer s+k and otherwise pow(float(z),
\* float(s+k)), a float that Fraction() converts exactly.
table_term(v, s0, z0, tk0, fk) ==
  LET e == s_plus(s0, tk0)
      e4 == (4 \div e.d) * e.n
      sk == Frac(FALSE, BnOfInt(e.n), BnOfInt(e.d))
      coef == Frac(tk0 % 2 = 1, <<1>>, fk)
      power == flo_pow(flo_lit(z0), e4)
      scaled(p, c) == EncCut(EncProd(p, EncExact(c)))
  IN IF v = "rational" /\ e.d = 1 THEN EncCut(EncExact(term_R(s0, z0, tk0, fk)))
     ELSE IF v = "rational" THEN scaled(flo_eval(power), FracDiv(coef, sk))
     ELSE flo_eval(flo_mul(flo_div(flo_lit(Frac(coef.neg, <<1>>, <<1>>)), flo_lit(FracOfBn(fk))),
                           flo_div(power, flo_lit(sk))))

\* what abs(t) < ε can answer for a value in t
table_below(t) ==
  LET least == IF t.lo.neg # t.hi.neg /\ ~FracIsZero(t.lo) /\ ~FracIsZero(t.hi) THEN FZero
               ELSE IF FracLt(FracAbs(t.lo), FracAbs(t.hi)) THEN FracAbs(t.lo)
               ELSE FracAbs(t.hi)
      most == IF FracLt(FracAbs(t.lo), FracAbs(t.hi)) THEN FracAbs(t.hi) ELSE FracAbs(t.lo)
  IN { b \in BOOLEAN : IF b THEN FracLt(least, eps) ELSE FracLe(eps, most) }

\* sum() adds a term: exactly on Fractions, rounded on floats
table_sum(v, g, t) ==
  IF v = "rational" THEN EncCut(EncSum(g, t)) ELSE flo_eval(flo_add(flo_val(g), flo_val(t)))

\* gamma_loop with the test after the addition: the term below the threshold
\* is added before the loop is left
RECURSIVE gamma_loop_late(_, _, _, _, _)
gamma_loop_late(s0, z0, k0, sig, c) ==
  IF k0 = MaxTermsF THEN [sigma |-> sig, k |-> k0]
  ELSE LET f == fact(c, k0)
           term == table_term("float", s0, z0, k0, f.ret)
           added == flo_eval(flo_add(flo_val(sig), flo_val(term)))
       IN IF TRUE \in table_below(term) THEN [sigma |-> added, k |-> k0]
          ELSE gamma_loop_late(s0, z0, k0 + 1, added, f.cache)

\* The for loop that the text after gamma gives as the alternative to the
\* pipeline, from the iteration k0 with the sum sig so far:
\*     sigma = 0
\*     for k in range(1000):
\*         term = ((-1)**k/fact(k))*(z**(s+k)/(s+k))
\*         if abs(term) < ε: break
\*         sigma += term
\*     return sigma
\* [sigma, k]: the value returned and the k at which the loop was left.
RECURSIVE gamma_loop(_, _, _, _, _)
gamma_loop(s0, z0, k0, sig, c) ==
  IF k0 = MaxTermsF THEN [sigma |-> sig, k |-> k0]
  ELSE LET f == fact(c, k0)
           term == table_term("float", s0, z0, k0, f.ret)
       IN IF TRUE \in table_below(term) THEN [sigma |-> sig, k |-> k0]
          ELSE gamma_loop(s0, z0, k0 + 1, flo_eval(flo_add(flo_val(sig), flo_val(term))), f.cache)

\* One turn of gamma's pipeline in either variant, as in gamma_term_R.  The
\* series of the table end before range(100) does.
table_term_step ==
  /\ pc = "terms" /\ tk < MaxTermsR
  /\ \E f \in { fact(cache, tk) } :
       \E t \in { table_term(variant, s, z, tk, f.ret) } :
         \E below \in table_below(t) :
           /\ cache' = f.cache
           /\ IF below
              THEN pc' = "summed" /\ UNCHANGED <<tk, sigma>>
              ELSE pc' = "terms" /\ tk' = tk + 1 /\ sigma' = table_sum(variant, sigma, t)
  /\ UNCHANGED <<x, k, s, z, warned, raised, result, ncalls, prev>>
  /\ UNCHANGED <<factVars, gh, ty>>

\* Gamma_Half gets Fraction(k, 2) in the rational variant and the float k/2
\* in the float variant: [ret, cache]
table_Gamma_Half(v, c, k0) ==
  LET lift(R) == [ret |-> EncExact(R.ret), cache |-> R.cache]
      both(F) == [ret |-> F.ret, cache |-> F.cache]
  IN IF v = "rational" THEN lift(Gamma_Half_R(c, half(k0)))
     ELSE both(Gamma_Half_enc(c, 2 * k0))

\* 1 - g / G: exactly on Fractions, rounded on floats
table_value(v, g, G) ==
  IF v = "rational" THEN EncCut(EncSum(EncExact(FOne), EncNeg(EncProd(g, EncInv(G)))))
  ELSE flo_eval(flo_sub(flo_int(1), flo_div(flo_val(g), flo_val(G))))

\* cdf's return: 1 - gamma(...) / Gamma_Half(...)
table_return ==
  /\ pc = "summed"
  /\ \E H \in { table_Gamma_Half(variant, cache, k) } :
       \E r \in { table_value(variant, sigma, H.ret) } :
         result' = r /\ cache' = H.cache
  /\ pc' = "done"
  /\ UNCHANGED <<x, k, s, z, tk, sigma, warned, raised, ncalls, prev>>
  /\ UNCHANGED <<factVars, gh, ty>>

NextTable ==
  \/ \E e \in Table : table_call_R(e)
  \/ table_term_step
  \/ table_return
  \/ table_call_F

\* a statistic of the table through the rational cdf and then the float cdf
SpecTable == InitTable /\ [][NextTable]_vars

-----------------------------------------------------------------------------
(* The approximations of the complete gamma function, Bonus/chi_sq.py,     *)
(* called with an integer.  Gamma1 and Gamma1f multiply the factors of a   *)
(* product limit, a factor a turn; Gamma2 and Gamma3 are closed forms.     *)
(* gh records the call, tk is the loop variable k of num_den, sigma holds  *)
(* the two products and the number of pairs that went into them.           *)

\* the arguments the docstrings show, and the one below them
GammaArgs == 1..5
\* range(1, 1000) of num_den
NumDenTerms == 999

\* Euler's number: math.e is the double nearest to it
EncE == EncRounded(EncExact(math_e), HalfUlp)

\* Gamma3 with range(3) in its sum: g[2] = 1/288 is added as well
Gamma3_flo_three(z0) ==
  LET zf == flo_int(z0)
      exp_neg == flo_ulp(flo_div(flo_int(1), flo_ipow(flo_val(EncE), z0)))
      t_1 == flo_mul(exp_neg, flo_lit(FracOfBn(BnPow(BnOfInt(z0), z0))))
      t_2 == flo_sqrt(flo_div(flo_mul(flo_int(2), flo_lit(math_pi)), zf))
      t_3 == flo_add(flo_add(flo_add(flo_int(0), flo_div(flo_int(1), flo_int(1))),
                             flo_div(flo_div(flo_int(1), flo_int(12)), zf)),
                     flo_div(flo_div(flo_int(1), flo_int(288)), flo_int(z0 * z0)))
  IN flo_mul(flo_mul(t_1, t_2), t_3)

\* Gamma3(z) for an integer z above zero, as a tree: z**z and z**k are ints
Gamma3_flo(z0) ==
  LET zf == flo_int(z0)
      exp_neg == flo_ulp(flo_div(flo_int(1), flo_ipow(flo_val(EncE), z0)))
      t_1 == flo_mul(exp_neg, flo_lit(FracOfBn(BnPow(BnOfInt(z0), z0))))
      t_2 == flo_sqrt(flo_div(flo_mul(flo_int(2), flo_lit(math_pi)), zf))
      t_3 == flo_add(flo_add(flo_int(0), flo_div(flo_int(1), flo_int(1))),
                     flo_div(flo_div(flo_int(1), flo_int(12)), zf))
  IN flo_mul(flo_mul(t_1, t_2), t_3)

\* Gamma2(t0) or Gamma3(t0) is called and returns
Gamma_closed_call(fn, t0) ==
  /\ pc = "idle" /\ ncalls = 0
  /\ gh' = [k |-> t0, fn |-> fn]
  /\ result' = flo_eval(IF fn = "Gamma2" THEN Gamma2_flo(4 * t0) ELSE Gamma3_flo(t0))
  /\ pc' = "done" /\ ncalls' = 1
  /\ UNCHANGED <<x, k, s, z, tk, sigma, warned, raised, cache, prev>>
  /\ UNCHANGED <<factVars, ty>>

\* Gamma1(t0) or Gamma1f(t0) is called: num_den starts at k = 1
Gamma_limit_call(fn, t0) ==
  /\ pc = "idle" /\ ncalls = 0
  /\ gh' = [k |-> t0, fn |-> fn]
  /\ tk' = 1
  /\ sigma' = [num |-> EncExact(FOne), den |-> EncExact(FOne), n |-> 0]
  /\ pc' = "terms" /\ ncalls' = 1
  /\ UNCHANGED <<x, k, s, z, warned, raised, result, cache, prev>>
  /\ UNCHANGED <<factVars, ty>>

\* num_den with the division done factor by factor: the pair is the ratio
\* (1+1/k)**t / (1+t/k) and 1
num_den_divided(fn, t0, k0) ==
  IF fn = "Gamma1"
  THEN <<flo_eval(flo_div(flo_pow(flo_add(flo_int(1), flo_div(flo_int(1), flo_int(k0))), 4 * t0),
                          flo_add(flo_int(1), flo_div(flo_int(t0), flo_int(k0))))),
         EncExact(FOne)>>
  ELSE <<EncExact(FracDiv(FracPow(Frac(FALSE, BnOfInt(k0 + 1), BnOfInt(k0)), t0),
                          Frac(FALSE, BnOfInt(k0 + t0), BnOfInt(k0)))),
         EncExact(FOne)>>

\* num_den: the pair for k.  Gamma1 yields the floats (1+1/k)**t and 1+t/k,
\* Gamma1f the Fractions (1+Fraction(1, k))**t and 1+t/k.
num_den(fn, t0, k0) ==
  IF fn = "Gamma1"
  THEN [i \in 1..2 |->
          flo_eval(IF i = 1
                   THEN flo_pow(flo_add(flo_int(1), flo_div(flo_int(1), flo_int(k0))), 4 * t0)
                   ELSE flo_add(flo_int(1), flo_div(flo_int(t0), flo_int(k0))))]
  ELSE <<EncExact(FracPow(Frac(FALSE, BnOfInt(k0 + 1), BnOfInt(k0)), t0)),
         EncExact(Frac(FALSE, BnOfInt(k0 + t0), BnOfInt(k0)))>>

\* n/d-1 of the end condition, and a product so far times a factor
limit_apply(fn, op, a, b) ==
  IF fn = "Gamma1"
  THEN flo_eval(IF op = "ratio" THEN flo_sub(flo_div(flo_val(a), flo_val(b)), flo_int(1))
                ELSE flo_mul(flo_val(a), flo_val(b)))
  ELSE EncCut(IF op = "ratio" THEN EncSum(EncProd(a, EncInv(b)), EncExact(FracNeg(FOne)))
              ELSE EncProd(a, b))

\* One turn of take_until_star: the pair for k ends the pipeline when
\* abs(n/d-1) < ε, and is kept otherwise.  reduce starts each product with
\* the first pair.
Gamma_limit_step ==
  /\ pc = "terms" /\ tk <= NumDenTerms
  /\ \E p \in { num_den(gh.fn, gh.k, tk) } :
       \E r \in { limit_apply(gh.fn, "ratio", p[1], p[2]) } :
         \E below \in table_below(r) :
           IF below
           THEN pc' = "summed" /\ UNCHANGED <<tk, sigma>>
           ELSE /\ pc' = "terms" /\ tk' = tk + 1
                /\ sigma' = IF sigma.n = 0 THEN [num |-> p[1], den |-> p[2], n |-> 1]
                            ELSE [num |-> limit_apply(gh.fn, "times", sigma.num, p[1]),
                                  den |-> limit_apply(gh.fn, "times", sigma.den, p[2]),
                                  n |-> sigma.n + 1]
  /\ UNCHANGED <<x, k, s, z, warned, raised, result, cache, ncalls, prev>>
  /\ UNCHANGED <<factVars, gh, ty>>

\* range(1, 1000) is exhausted: num_den ends
Gamma_limit_end ==
  /\ pc = "terms" /\ tk = NumDenTerms + 1
  /\ pc' = "summed"
  /\ UNCHANGED <<x, k, s, z, tk, sigma, warned, raised, result, cache, ncalls, prev>>
  /\ UNCHANGED <<factVars, gh, ty>>

\* prod(map(fst, terms))/(t*prod(map(snd, terms)))
limit_value(fn, t0, num, den) ==
  IF fn = "Gamma1"
  THEN flo_eval(flo_div(flo_val(num), flo_mul(flo_int(t0), flo_val(den))))
  ELSE EncCut(EncProd(num, EncInv(EncProd(EncExact(FracOfInt(t0)), den))))

\* Gamma_limit_return with products that start from 1, as reduce does with
\* an initial value: no pair at all gives 1/(t*1)
Gamma_limit_return_unit ==
  /\ pc = "summed" /\ gh.k # 0
  /\ result' = limit_value(gh.fn, gh.k, sigma.num, sigma.den) /\ UNCHANGED raised
  /\ pc' = "done"
  /\ UNCHANGED <<x, k, s, z, tk, sigma, warned, cache, ncalls, prev>>
  /\ UNCHANGED <<factVars, gh, ty>>

\* The return of Gamma1 and Gamma1f.  reduce(operator.mul, ...) of no pair at
\* all raises TypeError.
Gamma_limit_return ==
  /\ pc = "summed" /\ gh.k # 0
  /\ IF sigma.n = 0
     THEN raised' = "TypeError" /\ UNCHANGED result
     ELSE result' = limit_value(gh.fn, gh.k, sigma.num, sigma.den) /\ UNCHANGED raised
  /\ pc' = "done"
  /\ UNCHANGED <<x, k, s, z, tk, sigma, warned, cache, ncalls, prev>>
  /\ UNCHANGED <<factVars, gh, ty>>

NextGamma ==
  \/ \E fn \in {"Gamma2", "Gamma3"}, t0 \in GammaArgs : Gamma_closed_call(fn, t0)
  \/ \E fn \in {"Gamma1", "Gamma1f"}, t0 \in GammaArgs : Gamma_limit_call(fn, t0)
  \/ Gamma_limit_step
  \/ Gamma_limit_end
  \/ Gamma_limit_return

\* one call of an approximation with an integer
SpecGamma == InitR /\ [][NextGamma]_vars

-----------------------------------------------------------------------------
(* Properties of cdf.                                                      *)

InUnitInterval(v) == FracLe(FZero, v) /\ FracLe(v, FOne)

\* C1: for every valid input (x >= 0, integer k >= 1) the value cdf(x, k)
\* returns lies in the closed interval [0, 1], the inputs whose series runs
\* into the ceiling of terms() included.  (Rational variant.)
C1_ResultInUnitInterval ==
  pc = "done" /\ raised = "none" => InUnitInterval(result)

\* C2: when the value 1 - gamma(k/2, x/2)/Gamma_Half(k/2) that cdf computes is
\* outside [0, 1], cdf raises a range-violation error instead of returning
\* the value.
C2_OutOfRangeIsRaised ==
  [][ pc = "summed" /\ pc' = "done"
      /\ ~InUnitInterval(cdf_value_R(sigma, Gamma_Half_R(cache, half(k)).ret))
      => raised' = "RangeViolation" /\ result' = result ]_vars

\* C3: cdf is monotonic in x: for a fixed k and x1 < x2, cdf(x1, k) >= cdf(x2, k),
\* also where x1 and x2 lie on either side of a point at which the number of
\* terms the series keeps changes.  (prev is the call before the one that has
\* just returned.)
C3_MonotoneInX ==
  pc = "done" /\ raised = "none" /\ prev # NoCall /\ prev.k = k /\ FracLt(prev.x, x)
    => FracLe(result, prev.result)

\* C4: cdf(0, k) returns 1 for every integer k >= 1.  (Float variant.)
C4_OneAtZero ==
  pc = "done" /\ x = "zero" => raised = "none" /\ result = "one"

-----------------------------------------------------------------------------
(* Properties of gamma.                                                    *)

\* the series term of index j, (-1)^j/j! * z^(s+j)/(s+j), with j! the product
\* 1 * 2 * ... * j
series_term(s0, z0, j) == term_R(s0, z0, j, BnRangeProd(1, j))
\* the sum of the series terms of the indices lo..hi
RECURSIVE series_sum(_, _, _, _)
series_sum(s0, z0, lo, hi) ==
  IF lo > hi THEN FZero
  ELSE IF lo = hi THEN series_term(s0, z0, lo)
  ELSE LET mid == (lo + hi) \div 2
       IN FracAdd(series_sum(s0, z0, lo, mid), series_sum(s0, z0, mid + 1, hi))

C6_CeilingIsWarned ==
  pc \in {"summed", "done"} /\ tk = MaxTermsF => warned

-----------------------------------------------------------------------------
(* Properties of fact and its cache.                                       *)

\* C7: fact(0) = 1, and fact(n) = fact(n-1) * n for 1 <= n <= 20: of two calls
\* in a row, fact(n-1) and then fact(n), the second returns n times what the
\* first returned.
C7_FactRecurrence ==
  /\ last # << >> /\ last[1].arg = 0 => last[1].ret = <<1>>
  /\ Len(last) = 2 /\ last[1].arg \in 1..20 /\ last[2].arg = last[1].arg - 1
       => last[1].ret = BnMulLimb(last[2].ret, last[1].arg)

\* fact(20) has returned right after fact(19)
C7_Witness ==
  Len(last) = 2 /\ last[1].arg = 20 /\ last[2].arg = 19 /\ last[1].err = "none"

\* C8: fact(n) for n < 0 fails with a domain error and returns no value.
C8_NegativeIsRejected ==
  last # << >> /\ last[1].arg < 0 => last[1].err = "DomainError"

\* C9: the cache never changes a result: in any sequence of fact calls, every
\* call returns what the body of fact evaluates to for its argument, whether
\* the key is absent, present, or was dropped from the cache earlier.
C9_CacheKeepsResults ==
  \A i \in 1..Len(last) : last[i].ret = fact_body(last[i].arg)

\* a call answered from the cache, followed by a call that had to compute
\* again the value of a key the cache had dropped
C9_Witness ==
  /\ Len(last) = 2 /\ last[2].hit
  /\ ~last[1].hit /\ last[1].arg \in evicted

\* n! for the keys of the runs, as the product 1 * 2 * ... * n
Factorial == [n \in 0..(CacheSize + 1) |-> BnRangeProd(1, n)]

\* every entry holds the factorial of its key, no key is there twice, and the
\* cache is within its size
CacheSound(c) ==
  /\ Len(c) <= CacheSize
  /\ \A i \in 1..Len(c) : c[i].key >= 0 => c[i].val = Factorial[c[i].key]
  /\ \A i, j \in 1..Len(c) : c[i].key = c[j].key => i = j

\* C10: under any interleaving of the callers' fact calls, every call returns
\* n! for its own argument n and the cache holds no wrong or corrupted entry,
\* also when two callers miss on the same n and both compute it.
C10_ConcurrentCallsSound ==
  /\ \A t \in Threads : thr[t].done => thr[t].ret = Factorial[thr[t].arg]
  /\ CacheSound(cache)

\* two callers have had a call return, one of them having computed a value
\* that the other had stored since its miss
C10_Witness ==
  \E t, u \in Threads :
     /\ t # u /\ thr[t].done /\ thr[u].done
     /\ thr[t].dup /\ thr[t].arg = thr[u].arg /\ thr[t].ret = thr[u].ret

-----------------------------------------------------------------------------
(* Properties of Gamma_Half, called from outside cdf.                      *)

\* a call of Gamma_Half has returned or raised, with an argument of the type
\* its variant is written for
GammaHalfCalled ==
  /\ pc = "idle" /\ ncalls = 1
  /\ gh.variant = "rational" => gh.arg.ty # "float"
IsInt(a) == a.n % a.d = 0
IsHalfInt(a) == (2 * a.n) % a.d = 0 /\ a.n % a.d # 0
\* the n of an argument n + 1/2, and of an argument n
HalfOf(a) == ((2 * a.n) \div a.d - 1) \div 2
IntOf(a) == a.n \div a.d

\* C11 as stated: Gamma_Half dispatches on the shape of its argument, a
\* half-integer to the exact closed form and an integer to the Nemes
\* approximation Gamma2, in the float and in the rational variant alike.
C11_IntegerGoesToNemes ==
  GammaHalfCalled =>
    /\ IsHalfInt(gh.arg) => gh.via = "closed form"
    /\ IsInt(gh.arg) => gh.via = "Gamma2"

\* C11: Gamma_Half dispatches on the shape of its argument: a half-integer
\* goes to the exact closed form in both variants; an integer goes to the
\* Nemes approximation Gamma2 in the float variant and to the exact factorial
\* fact(k-1) in the rational variant.
C11_Dispatch ==
  GammaHalfCalled =>
    /\ IsHalfInt(gh.arg) => gh.via = "closed form"
    /\ IsInt(gh.arg) => gh.via = IF gh.variant = "float" THEN "Gamma2" ELSE "fact"

\* the rational Gamma_Half has answered an integer, and the float one too
C11_Witness ==
  /\ GammaHalfCalled /\ IsInt(gh.arg) /\ gh.err = "none"
  /\ gh.variant = "rational" /\ gh.via = "fact" /\ gh.arg.ty = "Fraction"

\* (2n)! / (4^n n!), each factorial as the product 1 * 2 * ... * m
HalfGammaQuotient(n) ==
  Frac(FALSE, BnRangeProd(1, 2 * n), BnMul(BnPow(<<4>>, n), BnRangeProd(1, n)))
\* the enclosure e lies within the relative distance u of the positive value v
EncNear(e, v, u) ==
  /\ FracLe(FracMul(v, FracSub(FOne, u)), e.lo)
  /\ FracLe(e.hi, FracMul(v, FracAdd(FOne, u)))
\* every value of the enclosure e is further than the relative distance u
\* from the positive value v
EncFar(e, v, u) ==
  \/ FracLt(e.hi, FracMul(v, FracSub(FOne, u)))
  \/ FracLt(FracMul(v, FracAdd(FOne, u)), e.lo)
FourUlp == Frac(FALSE, <<1>>, BnPow(<<2>>, 50))
Millionth == Frac(FALSE, <<1>>, BnPow(<<10>>, 6))

\* C12: for every integer n >= 0, Gamma_Half(n + 1/2) returns
\* (2n)! / (4^n n!) times the sqrt-pi value of its module (exactly in the
\* rational variant, to the rounding of the two float operations in the float
\* variant); so Gamma_Half(1/2) is that value and Gamma_Half(3/2) half of it.
C12_ClosedFormValue ==
  GammaHalfCalled /\ IsHalfInt(gh.arg) =>
    /\ gh.err = "none"
    /\ IF gh.variant = "rational"
       THEN FracEq(gh.ret, FracMul(HalfGammaQuotient(HalfOf(gh.arg)), sqrt_pi))
       ELSE /\ EncNear(gh.ret, FracMul(HalfGammaQuotient(HalfOf(gh.arg)),
                                       flo_eval(math_sqrt_pi).lo), FourUlp)
            /\ EncNear(gh.ret, FracMul(HalfGammaQuotient(HalfOf(gh.arg)),
                                       flo_eval(math_sqrt_pi).hi), FourUlp)

\* C13: for every integer n >= 1, Gamma_Half(n) equals fact(n-1): exactly in
\* the rational variant (an int, or a Fraction of denominator 1), within the
\* relative tolerance 1e-6 in the float variant.
C13_IntegerIsFactorial ==
  GammaHalfCalled /\ IsInt(gh.arg) /\ IntOf(gh.arg) >= 1 =>
    /\ gh.err = "none"
    /\ IF gh.variant = "rational"
       THEN gh.ret.d = <<1>> /\ ~gh.ret.neg /\ gh.ret.n = BnRangeProd(1, IntOf(gh.arg) - 1)
       ELSE ~EncFar(gh.ret, FracOfBn(BnRangeProd(1, IntOf(gh.arg) - 1)), Millionth)

\* C14: Gamma_Half called with an argument that is neither an integer nor a
\* half-integer fails with a domain error, in both variants.
C14_OtherShapesRejected ==
  GammaHalfCalled /\ ~IsInt(gh.arg) /\ ~IsHalfInt(gh.arg) => gh.err = "ValueError"

\* the float Gamma_Half was called with n + 1/2 less or more 2^-21
NearCalled == GammaHalfCalled /\ gh.arg.d = 2^21 /\ gh.arg.n % 2 = 1

\* C21: the float Gamma_Half takes every k within 1e-6 of n + 1/2, on either
\* side of it, for the half-integer n + 1/2: it returns the closed-form value
\* (2n)! / (4^n n!) * sqrt(pi) of that n (here to the relative distance 1e-6).
C21_NearHalfIsThatHalf ==
  NearCalled =>
    /\ gh.via = "closed form"
    /\ ~EncFar(gh.ret, FracMul(HalfGammaQuotient(gh.arg.n \div gh.arg.d),
                               flo_eval(math_sqrt_pi).lo), Millionth)

-----------------------------------------------------------------------------
(* Properties of gamma, called from outside cdf, and of the calls cdf makes. *)

\* C15: gamma(s, z) called with s <= 0 or z < 0 fails with a domain error
\* raised at once: no term of the series is computed or summed and no value
\* is returned.  (k = 0 marks a call from outside cdf; an error of any type
\* counts as the domain error.)
C15_BadArgumentsRejected ==
  pc # "idle" /\ k = 0 /\ (s.n <= 0 \/ z.neg) =>
    /\ tk = 0 /\ pc # "summed"
    /\ pc = "done" => raised # "none"

\* C16: for every cdf(x, k) with x >= 0 and k >= 1, the first argument of gamma
\* and the argument of Gamma_Half are k/2, which is n or n + 1/2 for an integer
\* n >= 0, a half-integer exactly when k is odd; so s > 0 and z >= 0 for gamma,
\* and Gamma_Half does not reject its argument.
C16_CallShapes ==
  pc \in {"terms", "summed", "done"} /\ k >= 1 =>
    /\ s.d \in {1, 2} /\ (s.d = 2 <=> k % 2 = 1)
    /\ s.n >= 1 /\ 2 * s.n = k * s.d
    /\ ~z.neg
    /\ raised # "ValueError"

\* a call with an odd k above 1 has returned a value: gamma and Gamma_Half
\* have had a half-integer
C16_Witness ==
  pc = "done" /\ raised = "none" /\ k % 2 = 1 /\ k > 1 /\ s.d = 2

\* C17: the rational variant never mixes representations: gamma, Gamma_Half
\* and cdf compute with exact rationals only, and the value cdf returns is a
\* Fraction, for an odd k and for x = 0 as well.
C17_RationalsOnly ==
  pc = "done" /\ k >= 1 /\ raised = "none" => ty.ret = "Fraction" /\ ~ty.floats

-----------------------------------------------------------------------------
(* The two variants on the documented table.                               *)

\* the float cdf has returned, after the rational cdf, for the same (x, k)
BothComputed == pc = "done" /\ ncalls = 2
\* every value in a is more than u away from every value in b
EncApart(a, b, u) ==
  \/ FracLt(FracAdd(a.hi, u), b.lo)
  \/ FracLt(FracAdd(b.hi, u), a.lo)

\* C18: on every (x, k) of the shared documented table, the value the float
\* cdf returns and the value the rational cdf returns are within 1e-6 of each
\* other.
C18_VariantsAgree ==
  BothComputed => ~EncApart(result, prev.result, Millionth)

-----------------------------------------------------------------------------
(* The documented values.                                                  *)

\* float(v) for the values v in e
float_of(e) == EncRounded(e, HalfUlp)
\* round(v, places) is shown / 10^places for every float v in e: v lies
\* strictly between (shown - 1/2) / 10^places and (shown + 1/2) / 10^places
RoundsTo(e, shown, places) ==
  LET unit == BnMul(<<2>>, BnPow(<<10>>, places))
  IN /\ FracLt(Frac(FALSE, BnOfInt(2 * shown - 1), unit), e.lo)
     /\ FracLt(e.hi, Frac(FALSE, BnOfInt(2 * shown + 1), unit))
\* the line of the table that the call at work computes
Entry == CHOOSE e \in Table : e.x = x /\ e.k = k

\* C19: in both variants cdf returns a value that rounds to the documented
\* one: cdf(19.18, 6) to 0.00387 at 5 places, cdf(0.004, 1) to 0.95 at 2
\* places, cdf(10.83, 1) to 0.001 at 3 places, and so for the other lines of
\* the table (the rational variant's value is converted with float() first,
\* as its docstring does).
C19_TableReproduced ==
  pc = "done" =>
    RoundsTo(IF variant = "rational" THEN float_of(result) ELSE result,
             Entry.shown[variant], Entry.places)
\* both variants have computed cdf(19.18, 6)
C19_Witness == BothComputed /\ k = 6 /\ prev.k = 6

-----------------------------------------------------------------------------
(* The factorial relation of the approximations.                           *)

\* the places the docstrings round to: none for the product limit, one for
\* the forms of Nemes and Stirling
places_of(fn) == IF fn \in {"Gamma1", "Gamma1f"} THEN 0 ELSE 1
\* n! in units of 10^-places
fact_shown(n, places) == Factorial[n][1] * (IF places = 0 THEN 1 ELSE 10)

\* C20: Gamma1, Gamma1f, Gamma2 and Gamma3, called with n + 1 for a small
\* integer n, each return a value that rounds to n!: at no place for the
\* product limit, at one place for the forms of Nemes and Stirling.
C20_FactorialRelation ==
  pc = "done" /\ gh.k # 0 =>
    /\ raised = "none"
    /\ RoundsTo(result, fact_shown(gh.k - 1, places_of(gh.fn)), places_of(gh.fn))

-----------------------------------------------------------------------------
(* The order of the work within one gamma evaluation.                      *)

\* the keys of the factorials fact was called for (from an empty cache)
CacheKeys(c) == { c[i].key : i \in 1..Len(c) }

\* C22: within one gamma evaluation the terms are produced one at a time and
\* in order: a turn of the pipeline computes the term of index tk and the
\* fact(tk) it needs, and nothing beyond; the index moves on by one, and only
\* past a term that was tested and found at or above the threshold; once a
\* term is below it, or range(100) is exhausted, the index stays where it is
\* and gamma returns.  (Rational variant, a call from an empty cache.)
C22_LazyInOrder ==
  [][ /\ pc = "terms" /\ raised' = "none" =>
           /\ tk' \in {tk, tk + 1}
           /\ tk' = tk + 1 <=> pc' = "terms"
           /\ tk' = tk + 1 => ~below_eps(series_term(s, z, tk))
           /\ tk' = tk /\ ~warned' => below_eps(series_term(s, z, tk))
           /\ CacheKeys(cache') = 0..(IF warned' THEN tk - 1 ELSE tk)
      /\ pc = "summed" => tk' = tk /\ pc' = "done"
    ]_vars
\* four terms were produced, and fact was called for them and no other
C22_Witness == pc = "terms" /\ tk = 4 /\ CacheKeys(cache) = 0..3

\* C23: every gamma call comes to an end: it produces at most as many terms
\* as the ceiling of terms() (100 in the rational variant) and then hands its
\* sum back (or the exception of a term), also when no term ever drops below
\* the threshold.
C23_GammaEnds ==
  /\ [](tk <= MaxTermsR)
  /\ (pc = "terms" ~> pc \in {"summed", "done"})
\* gamma has returned from a series that ran into the ceiling
C23_Witness == pc = "summed" /\ tk = MaxTermsR /\ ~below_eps(series_term(s, z, tk - 1))

-----------------------------------------------------------------------------
(* Properties of the product limit, Gamma1 and Gamma1f.                    *)

LimitCalled == ncalls = 1 /\ gh.fn \in {"Gamma1", "Gamma1f"}
\* the value v is one of the enclosure e
EncHolds(e, v) == FracLe(e.lo, v) /\ FracLe(v, e.hi)
\* the first n numerators multiplied: (2/1 * 3/2 * ... * (n+1)/n)**t
KeptNum(n, t0) == FracOfBn(BnPow(BnOfInt(n + 1), t0))
\* the first n denominators multiplied: (1+t)/1 * (2+t)/2 * ... * (n+t)/n
KeptDen(n, t0) == Frac(FALSE, BnRangeProd(n + 1, n + t0), BnRangeProd(1, t0))
\* the factor j is within 1E-8 of 1
FactorNearOne(j, t0) ==
  below_eps(FracSub(FracDiv(FracPow(Frac(FALSE, BnOfInt(j + 1), BnOfInt(j)), t0),
                            Frac(FALSE, BnOfInt(j + t0), BnOfInt(j))),
                    FOne))

\* C24: Gamma1 and Gamma1f end the product at the first factor k whose ratio
\* (1+1/k)**t / (1+t/k) is within 1E-8 of 1; the numerators of the factors
\* kept before it are multiplied into one product and the denominators into
\* another, nothing is divided while the factors are drawn, and the value
\* returned is the one quotient of the product of the numerators by t times
\* the product of the denominators.
C24_TwoProductsOneDivision ==
  [][ LimitCalled =>
        /\ pc = "terms" /\ pc' = "terms" =>
              /\ ~FactorNearOne(tk, gh.k)
              /\ tk' = tk + 1 /\ sigma'.n = tk
              /\ EncHolds(sigma'.num, KeptNum(tk, gh.k))
              /\ EncHolds(sigma'.den, KeptDen(tk, gh.k))
              /\ result' = result
        /\ pc = "terms" /\ pc' = "summed" =>
              /\ tk <= NumDenTerms => FactorNearOne(tk, gh.k)
              /\ sigma' = sigma /\ result' = result
        /\ pc = "summed" /\ raised' = "none" =>
              EncHolds(result', FracDiv(KeptNum(sigma.n, gh.k),
                                        FracMul(FracOfInt(gh.k), KeptDen(sigma.n, gh.k))))
    ]_vars
\* Gamma1 has returned the quotient of two products of 999 floats each
C24_Witness ==
  /\ LimitCalled /\ gh.fn = "Gamma1" /\ gh.k = 3
  /\ pc = "done" /\ raised = "none" /\ sigma.n = NumDenTerms

-----------------------------------------------------------------------------
(* Properties of the Stirling form, Gamma3.                                *)

Trillionth == Frac(FALSE, <<1>>, BnPow(<<10>>, 12))
\* The square of exp(-z) * z**z * sqrt(2*pi/z) * (1 + 1/(12*z)) for an
\* integer z, in fractions: the square has no root in it.  math.e and math.pi
\* are within 2**-53 of e and pi.
StirlingTwoSq(z0) ==
  LET c == FracAdd(FOne, Frac(FALSE, <<1>>, BnOfInt(12 * z0)))
  IN FracDiv(FracMul(FracMul(FracOfBn(BnPow(BnOfInt(z0), 2 * z0)),
                             FracDiv(FracMul(FracOfInt(2), math_pi), FracOfInt(z0))),
                     FracMul(c, c)),
             FracPow(math_e, 2 * z0))

\* C25: the sum of Gamma3 holds the coefficients g[0] = 1 and g[1] = 1/12 and
\* no other, whatever the argument: the value returned is, to twelve digits,
\* exp(-z) * z**z * sqrt(2*pi/z) * (1 + 1/(12*z)), and each of the other five
\* entries of g would move it by more than that.
C25_TwoCoefficients ==
  pc = "done" /\ ncalls = 1 /\ gh.fn = "Gamma3" =>
    EncNear(Enc(FracMul(result.lo, result.lo), FracMul(result.hi, result.hi)),
            StirlingTwoSq(gh.k), Trillionth)
\* Gamma3(5) has returned
C25_Witness == pc = "done" /\ ncalls = 1 /\ gh.fn = "Gamma3" /\ gh.k = 5

-----------------------------------------------------------------------------
(* The pipeline of gamma and the loop given for it.                        *)

-----------------------------------------------------------------------------
(* A first term below the threshold.                                       *)

\* C27: when the first term of the series is below 1E-8 in magnitude, gamma
\* sums no term and returns 0, and cdf returns 1: for x = 0 and for a small
\* x above zero alike.  (Float variant, the least x above zero.)
C27_OneForSmallX ==
  pc = "done" /\ x = "tiny" =>
    tk = 0 /\ sigma = "zero" /\ raised = "none" /\ result = "one"

-----------------------------------------------------------------------------
(* The ends of the product limit.                                          *)

C29_CeilingEndsProduct ==
  LimitCalled /\ gh.k \in 2..5 =>
    /\ pc = "terms" /\ tk <= NumDenTerms => ~FactorNearOne(tk, gh.k)
    /\ pc \in {"summed", "done"} => sigma.n = NumDenTerms /\ tk = NumDenTerms + 1
    /\ ~warned /\ raised = "none"
\* Gamma1f(5) has returned the product of 999 factors
C29_Witness ==
  /\ LimitCalled /\ gh.fn = "Gamma1f" /\ gh.k = 5
  /\ pc = "done" /\ sigma.n = NumDenTerms /\ result # FZero

-----------------------------------------------------------------------------
(* The cache of fact over a sequence of calls.                             *)

\* C30: whatever fact calls are made one after the other, the cache holds at
\* most 128 entries, the entry of a key n holds n! (1 for n < 2), and a call
\* takes an entry out of the cache only by putting a key that was not there
\* into a full cache, and then it is the one entry used least recently
\* (never the entry of the call just before).
C30_CacheBoundedSoundLru ==
  [][ /\ Len(cache') <= CacheSize
      /\ \A i \in 1..Len(cache') :
            cache'[i].val = (IF cache'[i].key < 2 THEN <<1>> ELSE Factorial[cache'[i].key])
      /\ CacheKeys(cache) \ CacheKeys(cache') # {} =>
            /\ Len(cache) = CacheSize
            /\ CacheKeys(cache) \ CacheKeys(cache') = {cache[1].key}
            /\ last # << >> => last[1].arg \notin CacheKeys(cache) \ CacheKeys(cache')
            /\ \E n \in CacheKeys(cache') \ CacheKeys(cache) :
                  CacheKeys(cache') \ CacheKeys(cache) = {n}
    ]_vars
\* a call has put a key beyond the sweep into the full cache, and later calls
\* went on from there
C30_Witness ==
  /\ nfact = MaxFactCalls /\ Len(cache) = CacheSize
  /\ CacheHas(cache, CacheSize + 1) /\ 0 \in evicted /\ Cardinality(evicted) >= 2
====
